---- MODULE Spec2Model ----
(***************************************************************************)
(* Model of fabric.py: an MCP server whose tools forward one call each to  *)
(* the Fabric REST API after acquiring a bearer token with the OAuth2      *)
(* client-credentials grant.                                               *)
(*                                                                         *)
(* Python strings are modelled as sequences of symbols (a symbol is a      *)
(* character or an indivisible piece of text), so that f-string            *)
(* interpolation is concatenation, s[:6] is a prefix and `x in s` is a     *)
(* search for a contiguous run.  Python dicts are functions from keys to   *)
(* values.  A tool invocation is a thread that blocks in its two           *)
(* requests.post/get calls; the identity endpoint and the Fabric API are   *)
(* the environment and answer with any response of a bounded set.          *)
(***************************************************************************)
EXTENDS Integers, Sequences, FiniteSets, TLC

VARIABLES
    TENANT_ID,        \* module globals read from the environment at import
    CLIENT_ID,
    CLIENT_SECRET,
    USER_OBJECT_ID,
    CAPACITY_ID,
    ENV_SOURCE,
    call              \* call[i]: the i-th tool invocation being served

config == <<TENANT_ID, CLIENT_ID, CLIENT_SECRET, USER_OBJECT_ID, CAPACITY_ID, ENV_SOURCE>>
vars == <<TENANT_ID, CLIENT_ID, CLIENT_SECRET, USER_OBJECT_ID, CAPACITY_ID, ENV_SOURCE, call>>

----------------------------------------------------------------------------
(* Bounds *)

\* Tool invocations the host may have in flight at once.
NumCalls == 2
\* Longest list of stage names given to create_deployment_pipeline, and
\* longest list of stage objects in the upstream's answer to it.
MaxStages == 3
\* Longest `value` array in the upstream's answer to GET /workspaces.
MaxItems == 3

Calls == 1..NumCalls

----------------------------------------------------------------------------
(* Python values *)

\* None: a reserved one-symbol text that no input contains.
None == <<"<None>">>

\* bool(x) for an optional string: None and "" are falsy.
Truthy(x) == x # None /\ x # <<>>

\* x or y
Or(x, y) == IF Truthy(x) THEN x ELSE y

\* d.get(k)
Get(d, k) == IF k \in DOMAIN d THEN d[k] ELSE None

\* d.get(k, []) for a list-valued key
GetList(d, k) == IF k \in DOMAIN d THEN d[k] ELSE <<>>

Digit(d) ==
    CASE d = 0 -> "0" [] d = 1 -> "1" [] d = 2 -> "2" [] d = 3 -> "3" [] d = 4 -> "4"
      [] d = 5 -> "5" [] d = 6 -> "6" [] d = 7 -> "7" [] d = 8 -> "8" [] d = 9 -> "9"

\* str(n) of a non-negative integer, as formatted into an f-string
RECURSIVE str(_)
str(n) == IF n < 10 THEN <<Digit(n)>> ELSE str(n \div 10) \o <<Digit(n % 10)>>

\* s[:n]
Prefix(s, n) == SubSeq(s, 1, IF Len(s) < n THEN Len(s) ELSE n)

\* needle in hay
Contains(hay, needle) ==
    \E k \in 0..(Len(hay) - Len(needle)) : SubSeq(hay, k + 1, k + Len(needle)) = needle

\* All sequences over S of length at most n.
RECURSIVE SeqsUpTo(_, _)
SeqsUpTo(S, n) ==
    IF n = 0 THEN {<<>>}
    ELSE LET shorter == SeqsUpTo(S, n - 1)
         IN  shorter \cup {Append(s, x) : s \in {t \in shorter : Len(t) = n - 1}, x \in S}

\* What a call produces: a returned value or a raised exception.
Returned(v) == [kind |-> "return", value |-> v, exc |-> "", msg |-> <<>>]
Raised(e, m) == [kind |-> "raise", value |-> <<>>, exc |-> e, msg |-> m]

\* resp.json(): the parsed body. type "invalid": the body is not JSON and
\* json() raises; "array": JSON that is no object; "object": a dict.
NotJson == [type |-> "invalid", obj |-> <<>>]
JsonArray == [type |-> "array", obj |-> <<>>]
JsonObject(d) == [type |-> "object", obj |-> d]

----------------------------------------------------------------------------
(* Configuration *)

FABRIC_BASE == <<"https://api.fabric.microsoft.com/v1">>

\* Number of leading characters of CLIENT_ID shown in a token failure.
ClientIdShown == 6

LongClientId == <<"1", "1", "1", "1", "2", "2", "2", "2", "-", "a", "p", "p">>
ShortClientId == <<"a", "p", "p">>
TheSecret == <<"s", "3", "c", "r", "3", "t">>

\* The environments the server is started in.  TENANT_ID, CLIENT_ID and
\* CLIENT_SECRET are non-empty: otherwise the import raises and no tool
\* is ever served.
Environments ==
    { [tenant |-> <<"contoso">>, client |-> LongClientId, secret |-> TheSecret,
       user |-> None, capacity |-> None, source |-> <<"(no .env found)">>],
      [tenant |-> <<"contoso">>, client |-> ShortClientId, secret |-> TheSecret,
       user |-> <<>>, capacity |-> <<>>, source |-> <<"/srv/.env">>],
      [tenant |-> <<"contoso">>, client |-> LongClientId, secret |-> TheSecret,
       user |-> <<"usr-env">>, capacity |-> <<"cap-env">>, source |-> <<"/srv/.env">>] }

missing ==
    {k \in {"TENANT_ID", "CLIENT_ID", "CLIENT_SECRET"} :
        ~Truthy(CASE k = "TENANT_ID" -> TENANT_ID
                  [] k = "CLIENT_ID" -> CLIENT_ID
                  [] k = "CLIENT_SECRET" -> CLIENT_SECRET)}

----------------------------------------------------------------------------
(* Auth helper *)

\* The request get_access_token posts to the identity endpoint.
TokenRequest ==
    [kind |-> "token", method |-> "POST",
     url |-> <<"https://login.microsoftonline.com/">> \o TENANT_ID \o <<"/oauth2/v2.0/token">>,
     data |-> [client_id |-> CLIENT_ID, client_secret |-> CLIENT_SECRET,
               scope |-> <<"https://api.fabric.microsoft.com/.default">>,
               grant_type |-> <<"client_credentials">>]]

\* resp.raise_for_status(): raises HTTPError for a 4xx or 5xx status, and
\* for no other status.  msg is str(e).
raise_for_status(resp) ==
    IF 400 <= resp.status_code /\ resp.status_code < 500
    THEN Raised("HTTPError", str(resp.status_code) \o <<" Client Error: ">> \o resp.reason
                             \o <<" for url: ">> \o resp.url)
    ELSE IF 500 <= resp.status_code /\ resp.status_code < 600
    THEN Raised("HTTPError", str(resp.status_code) \o <<" Server Error: ">> \o resp.reason
                             \o <<" for url: ">> \o resp.url)
    ELSE Returned(<<>>)

\* The keys of the identity endpoint's JSON documents, in document order.
IdpKeys == <<"error", "token_type", "access_token">>

\* json.dumps(data, indent=2) of a dict of strings.
RECURSIVE dumps_items(_, _)
dumps_items(data, n) ==
    IF n > Len(IdpKeys) THEN <<>>
    ELSE (IF IdpKeys[n] \in DOMAIN data
          THEN <<"\n  \"", IdpKeys[n], "\": \"">> \o data[IdpKeys[n]] \o <<"\",">>
          ELSE <<>>) \o dumps_items(data, n + 1)

dumps(data) ==
    LET items == dumps_items(data, 1)
    IN  IF items = <<>> THEN <<"{}">>
        ELSE <<"{">> \o SubSeq(items, 1, Len(items) - 1) \o <<"\"\n}">>

\* Variant of TokenFailureMessage: the request's form data is printed too.
TokenFailureMessageWithPayload(e, resp) ==
    <<"Token request failed: ">> \o e \o <<"\n">>
    \o <<"Status=">> \o str(resp.status_code) \o <<"\n">>
    \o <<"Body=">> \o resp.text \o <<"\n">>
    \o <<"Payload=">> \o TokenRequest.data.client_id \o <<" ">> \o TokenRequest.data.client_secret
    \o <<"\n">>
    \o <<"Tenant=">> \o TENANT_ID \o <<" ClientId=">> \o Prefix(CLIENT_ID, ClientIdShown)
    \o <<"... ">> \o <<"EnvSource=">> \o ENV_SOURCE

\* The text of the RuntimeError raised for a 4xx/5xx token response; e is str(e).
TokenFailureMessage(e, resp) ==
    <<"Token request failed: ">> \o e \o <<"\n">>
    \o <<"Status=">> \o str(resp.status_code) \o <<"\n">>
    \o <<"Body=">> \o resp.text \o <<"\n">>
    \o <<"Tenant=">> \o TENANT_ID \o <<" ClientId=">> \o Prefix(CLIENT_ID, ClientIdShown)
    \o <<"... ">> \o <<"EnvSource=">> \o ENV_SOURCE

\* Variant of get_access_token: the `if not token` test is left out.
get_access_token_unchecked(resp) ==
    LET e == raise_for_status(resp)
    IN  IF e.kind = "raise"
        THEN Raised("RuntimeError", <<"Token request failed: ">> \o e.msg)
        ELSE IF resp.json.type = "invalid"
        THEN Raised("JSONDecodeError", <<"Expecting value">>)
        ELSE IF resp.json.type # "object"
        THEN Raised("AttributeError", <<"'list' object has no attribute 'get'">>)
        ELSE Returned(Get(resp.json.obj, "access_token"))

\* get_access_token(), from the identity endpoint's response on.
get_access_token(resp) ==
    LET e == raise_for_status(resp)
    IN  IF e.kind = "raise"
        THEN Raised("RuntimeError", TokenFailureMessage(e.msg, resp))
        ELSE IF resp.json.type = "invalid"
        THEN Raised("JSONDecodeError", <<"Expecting value">>)
        ELSE IF resp.json.type # "object"
        THEN Raised("AttributeError", <<"'list' object has no attribute 'get'">>)
        ELSE LET data == resp.json.obj
                 token == Get(data, "access_token")
             IN  IF ~Truthy(token)
                 THEN Raised("RuntimeError", <<"No access_token in response: ">> \o dumps(data))
                 ELSE Returned(token)

_headers(token) ==
    [Authorization |-> <<"Bearer ">> \o token, ContentType |-> <<"application/json">>]

----------------------------------------------------------------------------
(* Tool handlers.  For each tool: what it does before it asks for a token  *)
(* (`_check`), the upstream request it sends (`_request`), and the result  *)
(* it makes of the upstream's response (`_result`).                        *)

\* A handler that goes on to get_access_token().
Continue == [stop |-> FALSE, result |-> Returned(<<>>)]
\* A handler that returns before any request.
Stop(v) == [stop |-> TRUE, result |-> Returned(v)]

\* resp.json() followed by a use of the document as a dict: the exception
\* raised, or Returned(the dict).
json_dict(resp) ==
    IF resp.json.type = "invalid" THEN Raised("JSONDecodeError", <<"Expecting value">>)
    ELSE IF resp.json.type # "object"
    THEN Raised("AttributeError", <<"'list' object has no attribute 'get'">>)
    ELSE Returned(resp.json.obj)

\* {x["displayName"]: x["id"] for x in items}: a later item replaces an
\* earlier one of the same displayName.
RECURSIVE dict_by_name(_)
dict_by_name(items) ==
    IF items = <<>> THEN <<>>
    ELSE LET last == items[Len(items)]
             before == dict_by_name(SubSeq(items, 1, Len(items) - 1))
         IN  [k \in DOMAIN before \cup {last.displayName} |->
                 IF k = last.displayName THEN last.id ELSE before[k]]

\* Variant of dict_by_name: an earlier item keeps its place.
RECURSIVE dict_by_name_first(_)
dict_by_name_first(items) ==
    IF items = <<>> THEN <<>>
    ELSE LET first == items[1]
             after == dict_by_name_first(SubSeq(items, 2, Len(items)))
         IN  [k \in DOMAIN after \cup {first.displayName} |->
                 IF k = first.displayName THEN first.id ELSE after[k]]

\* The KeyError the comprehension raises at the first item lacking a key
\* (the key is evaluated before the value), or Returned(the dict).
comprehension(items) ==
    LET bad == {n \in 1..Len(items) : ~({"displayName", "id"} \subseteq DOMAIN items[n])}
    IN  IF bad = {} THEN Returned(dict_by_name(items))
        ELSE LET n == CHOOSE m \in bad : \A o \in bad : m <= o
             IN  Raised("KeyError",
                        IF "displayName" \in DOMAIN items[n] THEN <<"'id'">>
                        ELSE <<"'displayName'">>)

\* The result every tool gives for a status it does not single out.
status_and_body(resp) == Returned([status |-> resp.status_code, body |-> resp.text])

(* mcp_env_info *)
mcp_env_info ==
    [cwd |-> <<"/srv">>, env_source |-> ENV_SOURCE,
     has_tenant_id |-> Truthy(TENANT_ID), has_client_id |-> Truthy(CLIENT_ID),
     has_client_secret |-> Truthy(CLIENT_SECRET),
     has_user_object_id |-> Truthy(USER_OBJECT_ID),
     has_capacity_id |-> Truthy(CAPACITY_ID)]

(* test_token *)
test_token(token) == Returned([access_token_len |-> Len(token)])

(* get_existing_workspaces *)
get_existing_workspaces_request(a, token) ==
    [kind |-> "upstream", method |-> "GET", url |-> FABRIC_BASE \o <<"/workspaces">>,
     headers |-> [Authorization |-> <<"Bearer ">> \o token]]

\* Variant of workspaces_by_name: the first workspace of a name is kept.
workspaces_by_name_first(value) ==
    IF comprehension(value).kind = "raise" THEN comprehension(value)
    ELSE Returned(dict_by_name_first(value))

workspaces_by_name(value) == comprehension(value)


\* Variant of get_existing_workspaces_result: 401 is not singled out.
get_existing_workspaces_result_no_401(resp) ==
    IF raise_for_status(resp).kind = "raise" THEN raise_for_status(resp)
    ELSE IF json_dict(resp).kind = "raise" THEN json_dict(resp)
    ELSE workspaces_by_name(GetList(json_dict(resp).value, "value"))

get_existing_workspaces_result(resp) ==
    IF resp.status_code = 401
    THEN Returned([error |-> <<"401 Unauthorized">>, body |-> resp.text])
    ELSE IF raise_for_status(resp).kind = "raise" THEN raise_for_status(resp)
    ELSE IF json_dict(resp).kind = "raise" THEN json_dict(resp)
    ELSE workspaces_by_name(GetList(json_dict(resp).value, "value"))

(* create_workspace *)
\* Variant of create_workspace_cid: the configured default comes first.
create_workspace_cid_default_first(a) == Or(CAPACITY_ID, a.capacity_id)

create_workspace_cid(a) == Or(a.capacity_id, CAPACITY_ID)

\* Variant of create_workspace_check: no early return.
create_workspace_check_none(a) == Continue

create_workspace_check(a) ==
    IF ~Truthy(create_workspace_cid(a))
    THEN Stop([error |-> <<"capacity_id not provided and CAPACITY_ID missing in .env">>])
    ELSE Continue

create_workspace_request(a, token) ==
    [kind |-> "upstream", method |-> "POST", url |-> FABRIC_BASE \o <<"/workspaces">>,
     json |-> [displayName |-> a.name, capacityId |-> create_workspace_cid(a)],
     headers |-> _headers(token)]

create_workspace_result(resp) ==
    IF resp.status_code = 201
    THEN IF json_dict(resp).kind = "raise" THEN json_dict(resp)
         ELSE Returned([workspace_id |-> Get(json_dict(resp).value, "id")])
    ELSE status_and_body(resp)

(* assign_workspace_admin *)
assign_workspace_admin_uid(a) == Or(a.user_object_id, USER_OBJECT_ID)

assign_workspace_admin_check(a) ==
    IF ~Truthy(assign_workspace_admin_uid(a))
    THEN Stop([error |-> <<"user_object_id not provided and USER_OBJECT_ID missing in .env">>])
    ELSE Continue

assign_workspace_admin_request(a, token) ==
    [kind |-> "upstream", method |-> "POST",
     url |-> FABRIC_BASE \o <<"/workspaces/">> \o a.workspace_id \o <<"/roleAssignments">>,
     json |-> [principal |-> [id |-> assign_workspace_admin_uid(a), type |-> <<"User">>],
               role |-> <<"Admin">>],
     headers |-> _headers(token)]

assign_workspace_admin_result(resp) == status_and_body(resp)

(* create_workspace_folder *)
create_workspace_folder_request(a, token) ==
    [kind |-> "upstream", method |-> "POST",
     url |-> FABRIC_BASE \o <<"/workspaces/">> \o a.workspace_id \o <<"/folders">>,
     json |-> IF Truthy(a.parent_folder_id)
              THEN [displayName |-> a.folder_name, parentFolderId |-> a.parent_folder_id]
              ELSE [displayName |-> a.folder_name],
     headers |-> _headers(token)]

create_workspace_folder_result(resp) ==
    IF resp.status_code = 201
    THEN IF json_dict(resp).kind = "raise" THEN json_dict(resp)
         ELSE Returned([folder_id |-> Get(json_dict(resp).value, "id"),
                        displayName |-> Get(json_dict(resp).value, "displayName")])
    ELSE status_and_body(resp)

(* create_lakehouse *)
create_lakehouse_request(a, token) ==
    [kind |-> "upstream", method |-> "POST",
     url |-> FABRIC_BASE \o <<"/workspaces/">> \o a.workspace_id \o <<"/lakehouses">>,
     json |-> [displayName |-> a.lakehouse_name],
     headers |-> _headers(token)]

create_lakehouse_result(resp) == status_and_body(resp)

(* create_warehouse *)
create_warehouse_request(a, token) ==
    [kind |-> "upstream", method |-> "POST",
     url |-> FABRIC_BASE \o <<"/workspaces/">> \o a.workspace_id \o <<"/warehouses">>,
     json |-> [displayName |-> a.warehouse_name],
     headers |-> _headers(token)]

create_warehouse_result(resp) == status_and_body(resp)

(* create_deployment_pipeline *)
\* [{"displayName": s, "description": f"{s} stage", "isPublic": False} for s in stages]
stage_objects(stages) ==
    [n \in 1..Len(stages) |->
        [displayName |-> stages[n], description |-> stages[n] \o <<" stage">>,
         isPublic |-> FALSE]]

create_deployment_pipeline_request(a, token) ==
    [kind |-> "upstream", method |-> "POST", url |-> FABRIC_BASE \o <<"/deploymentPipelines">>,
     json |-> [displayName |-> a.name, description |-> a.description,
               stages |-> stage_objects(a.stages)],
     headers |-> _headers(token)]

\* Variant of stage_map: the first stage of a name is kept.
stage_map_first(stages) ==
    IF comprehension(stages).kind = "raise" THEN comprehension(stages)
    ELSE Returned(dict_by_name_first(stages))

stage_map(stages) == comprehension(stages)

create_deployment_pipeline_result(resp) ==
    IF resp.status_code = 201
    THEN IF json_dict(resp).kind = "raise" THEN json_dict(resp)
         ELSE LET p == json_dict(resp).value
                  m == stage_map(GetList(p, "stages"))
              IN  IF m.kind = "raise" THEN m
                  ELSE Returned([pipeline_id |-> Get(p, "id"), stages |-> m.value])
    ELSE status_and_body(resp)

(* assign_workspace_to_stage *)
assign_workspace_to_stage_request(a, token) ==
    [kind |-> "upstream", method |-> "POST",
     url |-> FABRIC_BASE \o <<"/deploymentPipelines/">> \o a.pipeline_id \o <<"/stages/">>
             \o a.stage_id \o <<"/assignWorkspace">>,
     json |-> [workspaceId |-> a.workspace_id],
     headers |-> _headers(token)]

assign_workspace_to_stage_result(resp) == status_and_body(resp)

(* assign_pipeline_admin *)
assign_pipeline_admin_uid(a) == Or(a.user_object_id, USER_OBJECT_ID)

assign_pipeline_admin_check(a) ==
    IF ~Truthy(assign_pipeline_admin_uid(a))
    THEN Stop([error |-> <<"user_object_id not provided and USER_OBJECT_ID missing in .env">>])
    ELSE Continue

assign_pipeline_admin_request(a, token) ==
    [kind |-> "upstream", method |-> "POST",
     url |-> FABRIC_BASE \o <<"/deploymentPipelines/">> \o a.pipeline_id
             \o <<"/roleAssignments">>,
     json |-> [principal |-> [id |-> assign_pipeline_admin_uid(a), type |-> <<"User">>],
               role |-> <<"Admin">>],
     headers |-> _headers(token)]

assign_pipeline_admin_result(resp) == status_and_body(resp)

----------------------------------------------------------------------------
(* The tool catalog: what mcp.tool() registers. *)

ForwardingTools ==
    {"get_existing_workspaces", "create_workspace", "assign_workspace_admin",
     "create_workspace_folder", "create_lakehouse", "create_warehouse",
     "create_deployment_pipeline", "assign_workspace_to_stage", "assign_pipeline_admin"}

Tools == {"mcp_env_info", "test_token"} \cup ForwardingTools

\* Statements of tool t before its get_access_token() call.
Check(t, a) ==
    CASE t = "mcp_env_info" -> Stop(mcp_env_info)
      [] t = "create_workspace" -> create_workspace_check(a)
      [] t = "assign_workspace_admin" -> assign_workspace_admin_check(a)
      [] t = "assign_pipeline_admin" -> assign_pipeline_admin_check(a)
      [] OTHER -> Continue

\* The upstream request of forwarding tool t.
Request(t, a, token) ==
    CASE t = "get_existing_workspaces" -> get_existing_workspaces_request(a, token)
      [] t = "create_workspace" -> create_workspace_request(a, token)
      [] t = "assign_workspace_admin" -> assign_workspace_admin_request(a, token)
      [] t = "create_workspace_folder" -> create_workspace_folder_request(a, token)
      [] t = "create_lakehouse" -> create_lakehouse_request(a, token)
      [] t = "create_warehouse" -> create_warehouse_request(a, token)
      [] t = "create_deployment_pipeline" -> create_deployment_pipeline_request(a, token)
      [] t = "assign_workspace_to_stage" -> assign_workspace_to_stage_request(a, token)
      [] t = "assign_pipeline_admin" -> assign_pipeline_admin_request(a, token)

\* The result forwarding tool t makes of the upstream's response.
Result(t, resp) ==
    CASE t = "get_existing_workspaces" -> get_existing_workspaces_result(resp)
      [] t = "create_workspace" -> create_workspace_result(resp)
      [] t = "assign_workspace_admin" -> assign_workspace_admin_result(resp)
      [] t = "create_workspace_folder" -> create_workspace_folder_result(resp)
      [] t = "create_lakehouse" -> create_lakehouse_result(resp)
      [] t = "create_warehouse" -> create_warehouse_result(resp)
      [] t = "create_deployment_pipeline" -> create_deployment_pipeline_result(resp)
      [] t = "assign_workspace_to_stage" -> assign_workspace_to_stage_result(resp)
      [] t = "assign_pipeline_admin" -> assign_pipeline_admin_result(resp)

----------------------------------------------------------------------------
(* The environment: what the MCP host passes and what the two remote       *)
(* services answer.                                                        *)

\* Values a host passes for an optional string argument: omitted, "", a value.
Optional == {None, <<>>, <<"arg-1">>}

StageNames == {<<"Dev">>, <<"Test">>, <<"Prod">>}

\* The arguments of tool t, its optional arguments drawn from `optional`
\* and its list of stage names from `stageLists`.
ArgSets(t, optional, stageLists) ==
    CASE t = "create_workspace" -> [name : {<<"sales">>}, capacity_id : optional]
      [] t = "assign_workspace_admin" -> [workspace_id : {<<"w-1">>}, user_object_id : optional]
      [] t = "create_workspace_folder" ->
            [workspace_id : {<<"w-1">>}, folder_name : {<<"raw">>}, parent_folder_id : optional]
      [] t = "create_lakehouse" -> [workspace_id : {<<"w-1">>}, lakehouse_name : {<<"lake">>}]
      [] t = "create_warehouse" -> [workspace_id : {<<"w-1">>}, warehouse_name : {<<"wh">>}]
      [] t = "create_deployment_pipeline" ->
            [name : {<<"release">>}, description : {<<"to prod">>}, stages : stageLists]
      [] t = "assign_workspace_to_stage" ->
            [pipeline_id : {<<"p-1">>}, stage_id : {<<"s-1">>}, workspace_id : {<<"w-1">>}]
      [] t = "assign_pipeline_admin" -> [pipeline_id : {<<"p-1">>}, user_object_id : optional]
      [] OTHER -> {<<>>}

\* Access tokens the identity endpoint issues.
Tokens == {<<"ey", "A">>, <<"ey", "B", "x">>}

IdpStatuses == {200, 302, 400, 401, 500}

\* Responses of the identity endpoint: any status with any body.  A body
\* may repeat what the request carried, the client secret included.
IdpResponses(statuses, tokens) ==
    [status_code : statuses,
     reason : {<<"Unauthorized">>, <<"Rejected ">> \o CLIENT_SECRET},
     text : {<<"{\"error\": \"invalid_client\"}">>,
             <<"invalid secret '">> \o CLIENT_SECRET \o <<"'">>},
     json : {NotJson, JsonArray, JsonObject([error |-> <<"invalid_client">>]),
             JsonObject([access_token |-> <<>>])}
            \cup {JsonObject([token_type |-> <<"Bearer">>, access_token |-> t]) : t \in tokens},
     url : {TokenRequest.url}]

UpstreamStatuses == {200, 201, 302, 401, 500}

\* Workspace objects of a `value` array; the last one lacks its id.
WorkspaceItems ==
    {[displayName |-> <<"A">>, id |-> <<"1">>], [displayName |-> <<"B">>, id |-> <<"2">>],
     [displayName |-> <<"A">>, id |-> <<"2">>], [displayName |-> <<"B">>]}

\* Stage objects of a created pipeline; the last one lacks its id.
StageItems ==
    {[displayName |-> <<"Dev">>, id |-> <<"d1">>], [displayName |-> <<"Test">>, id |-> <<"t1">>],
     [displayName |-> <<"Prod">>, id |-> <<"p1">>], [displayName |-> <<"Dev">>, id |-> <<"p1">>],
     [displayName |-> <<"Test">>]}

\* The JSON documents the upstream answers tool t with; `lists` are the
\* arrays of workspace or stage objects it may hold.
UpstreamDocuments(t, lists) ==
    CASE t = "get_existing_workspaces" ->
            {NotJson, JsonArray, JsonObject(<<>>)} \cup {JsonObject([value |-> v]) : v \in lists}
      [] t = "create_workspace" -> {NotJson, JsonObject(<<>>), JsonObject([id |-> <<"w-9">>])}
      [] t = "create_workspace_folder" ->
            {NotJson, JsonObject(<<>>), JsonObject([id |-> <<"f-9">>, displayName |-> <<"raw">>])}
      [] t = "create_deployment_pipeline" ->
            {NotJson, JsonObject([id |-> <<"p-9">>])}
            \cup {JsonObject([id |-> <<"p-9">>, stages |-> v]) : v \in lists}
      [] OTHER -> {NotJson, JsonObject(<<>>)}

\* Responses of the Fabric API to the request req of tool t.
UpstreamResponses(t, req, statuses, lists) ==
    [status_code : statuses,
     reason : {<<"Reason">>},
     text : {<<>>, <<"{\"errorCode\": \"Conflict\"}">>},
     json : UpstreamDocuments(t, lists),
     url : {req.url}]

----------------------------------------------------------------------------
(* State machine *)

NoResponse == [status_code |-> 0, reason |-> <<>>, text |-> <<>>, json |-> NotJson, url |-> <<>>]

\* What the identity endpoint answered this invocation: the status and the
\* access_token of its document (None when it has none).  Kept for the
\* properties; the handler never reads it.
NoAuth == [status_code |-> 0, access_token |-> None]
Answered(r) == [status_code |-> r.status_code, access_token |-> Get(r.json.obj, "access_token")]

\* No invocation: the slot holds nothing of an earlier one.
Idle ==
    [pc |-> "idle", tool |-> "", args |-> <<>>, token |-> None, auth |-> NoAuth,
     resp |-> NoResponse, sent |-> <<>>, result |-> Returned(<<>>)]

\* The server has been imported: the required settings are present.
Init ==
    /\ \E e \in Environments :
          /\ TENANT_ID = e.tenant
          /\ CLIENT_ID = e.client
          /\ CLIENT_SECRET = e.secret
          /\ USER_OBJECT_ID = e.user
          /\ CAPACITY_ID = e.capacity
          /\ ENV_SOURCE = e.source
    /\ missing = {}
    /\ call = [i \in Calls |-> Idle]

\* Variant of Invoke: the handler asks for a token twice.
InvokeTwice(i, t, a) ==
    /\ call[i].pc = "idle"
    /\ call' = [call EXCEPT ![i] =
                  IF Check(t, a).stop
                  THEN [Idle EXCEPT !.pc = "done", !.tool = t, !.args = a,
                                    !.result = Check(t, a).result]
                  ELSE [Idle EXCEPT !.pc = "token", !.tool = t, !.args = a,
                                    !.sent = <<TokenRequest, TokenRequest>>]]
    /\ UNCHANGED config

\* The host invokes tool t with arguments a.  The handler runs up to its
\* first request: it returns at once (mcp_env_info, or an argument that
\* resolves to nothing), or posts the token request and blocks.
Invoke(i, t, a) ==
    /\ call[i].pc = "idle"
    /\ call' = [call EXCEPT ![i] =
                  IF Check(t, a).stop
                  THEN [Idle EXCEPT !.pc = "done", !.tool = t, !.args = a,
                                    !.result = Check(t, a).result]
                  ELSE [Idle EXCEPT !.pc = "token", !.tool = t, !.args = a,
                                    !.sent = <<TokenRequest>>]]
    /\ UNCHANGED config

\* The token a module-level cache would hand invocation i: one another
\* invocation holds, if any, else the fresh one.
Cached(i, fresh) ==
    IF \E j \in Calls : j # i /\ Truthy(call[j].token)
    THEN call[CHOOSE j \in Calls : j # i /\ Truthy(call[j].token)].token
    ELSE fresh

\* Variant of TokenReply: tokens are cached across invocations.
TokenReplyCached(i, r) ==
    /\ call[i].pc = "token"
    /\ LET c == call[i]
           out == get_access_token(r)
       IN  call' = [call EXCEPT ![i] =
              IF out.kind = "raise"
              THEN [c EXCEPT !.pc = "done", !.auth = Answered(r), !.resp = r,
                             !.result = out]
              ELSE IF c.tool = "test_token"
              THEN [c EXCEPT !.pc = "done", !.token = Cached(i, out.value),
                             !.auth = Answered(r),
                             !.result = test_token(Cached(i, out.value))]
              ELSE [c EXCEPT !.pc = "upstream", !.token = Cached(i, out.value),
                             !.auth = Answered(r),
                             !.sent = Append(c.sent, Request(c.tool, c.args, Cached(i, out.value)))]]
    /\ UNCHANGED config

\* The identity endpoint answers r.  get_access_token raises, and the
\* handler with it; or returns the token, and the handler returns
\* (test_token) or sends its upstream request and blocks.
TokenReply(i, r) ==
    /\ call[i].pc = "token"
    /\ LET c == call[i]
           out == get_access_token(r)
       IN  call' = [call EXCEPT ![i] =
              IF out.kind = "raise"
              THEN [c EXCEPT !.pc = "done", !.auth = Answered(r), !.resp = r,
                             !.result = out]
              ELSE IF c.tool = "test_token"
              THEN [c EXCEPT !.pc = "done", !.token = out.value,
                             !.auth = Answered(r),
                             !.result = test_token(out.value)]
              ELSE [c EXCEPT !.pc = "upstream", !.token = out.value,
                             !.auth = Answered(r),
                             !.sent = Append(c.sent, Request(c.tool, c.args, out.value))]]
    /\ UNCHANGED config

\* The Fabric API answers r and the handler makes its result of it.
UpstreamReply(i, r) ==
    /\ call[i].pc = "upstream"
    /\ call' = [call EXCEPT ![i] =
                  [call[i] EXCEPT !.pc = "done", !.resp = r,
                                  !.result = Result(call[i].tool, r)]]
    /\ UNCHANGED config

\* The request invocation i is blocked in gets no answer: requests raises
\* a ConnectionError, which no handler catches.
Unreachable(i) ==
    /\ call[i].pc \in {"token", "upstream"}
    /\ call' = [call EXCEPT ![i] =
                  [call[i] EXCEPT !.pc = "done",
                                  !.result = Raised("ConnectionError", <<"Max retries exceeded">>)]]
    /\ UNCHANGED config

\* The result (or the exception) has gone to the host; the handler's
\* locals, its token among them, are gone.
Complete(i) ==
    /\ call[i].pc = "done"
    /\ call' = [call EXCEPT ![i] = Idle]
    /\ UNCHANGED config

\* The upstream request call i is blocked in.
Pending(i) == call[i].sent[Len(call[i].sent)]

(* Spec: one invocation at a time, every tool, every kind of argument. *)
SomeLists(items) == {<<>>} \cup {<<x, y>> : x \in items, y \in items}

Next ==
    \E i \in {1} :
        \/ \E t \in Tools : \E a \in ArgSets(t, Optional, SeqsUpTo(StageNames, 1)) :
              Invoke(i, t, a)
        \/ \E r \in IdpResponses(IdpStatuses, Tokens) : TokenReply(i, r)
        \/ /\ call[i].pc = "upstream"
           /\ \E r \in UpstreamResponses(call[i].tool, Pending(i), UpstreamStatuses,
                                         IF call[i].tool = "get_existing_workspaces"
                                         THEN SomeLists(WorkspaceItems)
                                         ELSE SomeLists(StageItems)) :
                 UpstreamReply(i, r)
        \/ Unreachable(i)
        \/ Complete(i)

Spec == Init /\ [][Next]_vars

(* SpecConc: NumCalls invocations in flight at once, their steps           *)
(* interleaved; a few tools, and answers that differ in the token.         *)
ConcTools == {"test_token", "get_existing_workspaces", "create_workspace", "create_warehouse"}

\* The answers with an unremarkable reason phrase and body text.
Plain(R) == {r \in R : r.reason \in {<<"Unauthorized">>, <<"Reason">>} /\ Len(r.text) = 1}

\* A server started with its optional defaults configured.
InitConfigured == Init /\ Truthy(CAPACITY_ID)

NextConc ==
    \E i \in Calls :
        \/ \E t \in ConcTools : \E a \in ArgSets(t, {None}, {<<>>}) : Invoke(i, t, a)
        \/ \E r \in {q \in Plain(IdpResponses({200, 401}, Tokens)) :
                        /\ q.json.type = "object"
                        /\ (q.status_code = 200) = ("access_token" \in DOMAIN q.json.obj)
                        /\ Get(q.json.obj, "access_token") # <<>>} :
              TokenReply(i, r)
        \/ /\ call[i].pc = "upstream"
           /\ \E r \in {q \in Plain(UpstreamResponses(call[i].tool, Pending(i), {200, 201}, {<<>>})) :
                           q.json = JsonObject(<<>>)} :
                 UpstreamReply(i, r)
        \/ Unreachable(i)
        \/ Complete(i)

SpecConc == InitConfigured /\ [][NextConc]_vars

(* SpecPipeline: create_deployment_pipeline on every list of at most       *)
(* MaxStages stage names, the upstream answering 201 with any list of at   *)
(* most MaxStages stage objects, or refusing.                              *)
NextPipeline ==
    \E i \in {1} :
        \/ \E a \in ArgSets("create_deployment_pipeline", {None}, SeqsUpTo(StageNames, MaxStages)) :
              Invoke(i, "create_deployment_pipeline", a)
        \/ \E r \in {q \in Plain(IdpResponses({200, 401}, {<<"ey", "A">>})) :
                        q.json.type = "object" /\ Get(q.json.obj, "access_token") # <<>>} :
              TokenReply(i, r)
        \/ /\ call[i].pc = "upstream"
           /\ \E r \in {q \in Plain(UpstreamResponses(call[i].tool, Pending(i), {201, 500},
                                                     SeqsUpTo(StageItems, MaxStages))) :
                           q.status_code = 201 \/ q.json = NotJson} :
                 UpstreamReply(i, r)
        \/ Unreachable(i)
        \/ Complete(i)

SpecPipeline == InitConfigured /\ [][NextPipeline]_vars

(* SpecList: get_existing_workspaces, the upstream answering with any      *)
(* `value` array of at most MaxItems workspace objects, or refusing.       *)
NextList ==
    \E i \in {1} :
        \/ Invoke(i, "get_existing_workspaces", <<>>)
        \/ \E r \in {q \in Plain(IdpResponses({200, 401}, {<<"ey", "A">>})) :
                        q.json.type = "object" /\ Get(q.json.obj, "access_token") # <<>>} :
              TokenReply(i, r)
        \/ /\ call[i].pc = "upstream"
           /\ \E r \in UpstreamResponses(call[i].tool, Pending(i), {200, 401, 500},
                                         SeqsUpTo(WorkspaceItems, MaxItems)) :
                 UpstreamReply(i, r)
        \/ Unreachable(i)
        \/ Complete(i)

SpecList == InitConfigured /\ [][NextList]_vars

----------------------------------------------------------------------------
(* Properties *)

\* The requests invocation i has issued, in order: "token" or "upstream".
Kinds(i) == [n \in 1..Len(call[i].sent) |-> call[i].sent[n].kind]

\* The upstream request of invocation i, once sent.
Sent(i) == call[i].sent[2]

\* Invocation i is of tool t and has sent its upstream request.
Forwarding(i, t) == call[i].tool = t /\ Len(call[i].sent) = 2

\* Invocation i has got the upstream's answer and made its result.
Forwarded(i) == call[i].pc = "done" /\ Len(call[i].sent) = 2

\* The identity endpoint has answered invocation i.
TokenAnswered(i) == call[i].auth.status_code # 0

\* Invocation i was given no value for its defaulted argument (omitted, or
\* empty) and the environment configures no default for it.
ArgumentMissing(i) ==
    \/ /\ call[i].tool = "create_workspace"
       /\ ~Truthy(call[i].args.capacity_id) /\ ~Truthy(CAPACITY_ID)
    \/ /\ call[i].tool \in {"assign_workspace_admin", "assign_pipeline_admin"}
       /\ ~Truthy(call[i].args.user_object_id) /\ ~Truthy(USER_OBJECT_ID)

IsError(status) == 400 <= status /\ status < 600
Is2xx(status) == 200 <= status /\ status < 300

\* Every item of the list has a displayName and an id.
WellFormed(items) == \A n \in 1..Len(items) : DOMAIN items[n] = {"displayName", "id"}

\* The displayName -> id mapping of a list of items in which, of the items
\* of one displayName, the last gives the id.
LastWins(items, m) ==
    /\ DOMAIN m = {items[n].displayName : n \in 1..Len(items)}
    /\ \A n \in 1..Len(items) :
          (\A o \in (n + 1)..Len(items) : items[o].displayName # items[n].displayName)
             => m[items[n].displayName] = items[n].id

\* The displayName -> id mapping to which every item contributes its own id.
EveryItem(items, m) ==
    /\ DOMAIN m = {items[n].displayName : n \in 1..Len(items)}
    /\ \A n \in 1..Len(items) : m[items[n].displayName] = items[n].id

(* C1 *)

\* C1, as stated: every finished invocation, of whatever tool and with
\* whatever arguments, has issued exactly one token request and then exactly
\* one upstream request.
C1_EveryCallTokenThenUpstream ==
    \A i \in Calls : call[i].pc = "done" => Kinds(i) = <<"token", "upstream">>

\* C1, amended: an invocation never issues more than one token request and
\* one upstream request, and an upstream request only after its token
\* request.  A finished invocation of a forwarding tool whose defaulted
\* argument resolved and whose get_access_token() returned a token has
\* issued exactly the two, in that order; mcp_env_info and an invocation
\* whose argument is missing have issued none; test_token and an invocation
\* whose token acquisition raised have issued the token request alone.
C1_TokenThenUpstream ==
    \A i \in Calls :
        /\ Kinds(i) \in {<<>>, <<"token">>, <<"token", "upstream">>}
        /\ call[i].pc = "done" =>
              Kinds(i) = IF call[i].tool = "mcp_env_info" \/ ArgumentMissing(i) THEN <<>>
                         ELSE IF call[i].tool = "test_token" \/ ~Truthy(call[i].token)
                         THEN <<"token">>
                         ELSE <<"token", "upstream">>

C1_Witness ==
    \E i \in Calls :
        /\ call[i].pc = "done" /\ call[i].tool = "assign_pipeline_admin"
        /\ call[i].args.user_object_id = None /\ Truthy(USER_OBJECT_ID)
        /\ Kinds(i) = <<"token", "upstream">>
        /\ call[i].result.kind = "return"

(* C2 *)

\* C2: create_workspace, assign_workspace_admin and assign_pipeline_admin,
\* invoked without their defaulted argument where no default is configured,
\* return an error result and issue no request: neither the identity
\* endpoint nor the upstream is contacted.
C2_MissingArgumentNoNetwork ==
    \A i \in Calls :
        call[i].pc # "idle" /\ ArgumentMissing(i) =>
            /\ call[i].pc = "done"
            /\ call[i].sent = <<>>
            /\ call[i].result.kind = "return"
            /\ DOMAIN call[i].result.value = {"error"}

C2_Witness ==
    \E i \in Calls :
        /\ call[i].pc = "done" /\ call[i].tool = "create_workspace"
        /\ call[i].args.capacity_id = None /\ CAPACITY_ID = None
        /\ call[i].sent = <<>>
        /\ "error" \in DOMAIN call[i].result.value

(* C3 *)

\* C3, on the error statuses: when the upstream answers a forwarding tool
\* with a 4xx or 5xx status, the tool returns {status, body} with the
\* answer's status and text and does not raise.  (The 401 answer to
\* get_existing_workspaces, whose result C9 describes, is left out.)
C3_UpstreamErrorReturned ==
    \A i \in Calls :
        /\ Forwarded(i)
        /\ IsError(call[i].resp.status_code)
        /\ ~(call[i].tool = "get_existing_workspaces" /\ call[i].resp.status_code = 401)
        => /\ call[i].result.kind = "return"
           /\ call[i].result.value =
                 [status |-> call[i].resp.status_code, body |-> call[i].resp.text]

(* C4 *)

C6_TokenOfOwnInvocation ==
    /\ [](\A i \in Calls :
            /\ Len(call[i].sent) = 2 =>
                  Sent(i).headers.Authorization = <<"Bearer ">> \o call[i].auth.access_token
            /\ call[i].pc = "idle" => call[i] = Idle)
    /\ [][/\ config' = config
          /\ \A i, j \in Calls : i # j /\ call'[i] # call[i] => call'[j] = call[j]]_vars

C6_Witness ==
    \E i, j \in Calls :
        /\ Len(call[i].sent) = 2 /\ Len(call[j].sent) = 2
        /\ call[i].auth.access_token # call[j].auth.access_token
        /\ Sent(i).headers.Authorization = <<"Bearer ", "ey", "A">>
        /\ Sent(j).headers.Authorization = <<"Bearer ", "ey", "B", "x">>

(* C7 *)

\* C7, as stated: in create_workspace's request the capacityId is the
\* capacity_id argument whenever one is supplied, and the configured
\* default when it is omitted and a default is configured.
C7_DefaultOnlyWhenOmitted ==
    \A i \in Calls :
        Forwarding(i, "create_workspace") =>
            /\ call[i].args.capacity_id # None =>
                  Sent(i).json.capacityId = call[i].args.capacity_id
            /\ call[i].args.capacity_id = None /\ Truthy(CAPACITY_ID) =>
                  Sent(i).json.capacityId = CAPACITY_ID

\* C7, amended: in create_workspace's request the capacityId is the
\* capacity_id argument whenever a non-empty one is supplied, and the
\* configured default when the argument is omitted or empty (a request is
\* then sent only if a default is configured).
C7_DefaultWhenOmittedOrEmpty ==
    \A i \in Calls :
        Forwarding(i, "create_workspace") =>
            /\ Truthy(call[i].args.capacity_id) =>
                  Sent(i).json.capacityId = call[i].args.capacity_id
            /\ ~Truthy(call[i].args.capacity_id) =>
                  Truthy(CAPACITY_ID) /\ Sent(i).json.capacityId = CAPACITY_ID

C7_Witness ==
    \E i \in Calls :
        /\ Forwarding(i, "create_workspace")
        /\ call[i].args.capacity_id = None
        /\ CAPACITY_ID = <<"cap-env">>
        /\ Sent(i).json = [displayName |-> <<"sales">>, capacityId |-> <<"cap-env">>]

(* C8 *)

\* The stages of the request are one object per stage name, in the order
\* given, each {displayName: s, description: "<s> stage", isPublic: false}.
StagesAsGiven(i) ==
    LET given == call[i].args.stages
        sent == Sent(i).json.stages
    IN  /\ Len(sent) = Len(given)
        /\ \A n \in 1..Len(given) :
              sent[n] = [displayName |-> given[n],
                         description |-> Append(given[n], " stage"),
                         isPublic |-> FALSE]

\* The upstream created the pipeline of invocation i and its answer lists
\* stage objects, each with its displayName and id.
PipelineCreated(i) ==
    /\ Forwarded(i) /\ call[i].tool = "create_deployment_pipeline"
    /\ call[i].resp.status_code = 201
    /\ call[i].resp.json.type = "object"
    /\ WellFormed(GetList(call[i].resp.json.obj, "stages"))

\* The answer's stages bear the stage names of the request, in its order.
StagesEchoed(i) ==
    LET given == call[i].args.stages
        made == GetList(call[i].resp.json.obj, "stages")
    IN  /\ Len(made) = Len(given)
        /\ \A n \in 1..Len(given) : made[n].displayName = given[n]

\* C8, as stated: the request's stages are as given, and when the upstream
\* creates the pipeline and answers with one stage object per stage name,
\* in order, the returned mapping gives, for every stage, that stage's id
\* under its displayName.
C8_StageMapEveryStage ==
    \A i \in Calls :
        /\ Forwarding(i, "create_deployment_pipeline") => StagesAsGiven(i)
        /\ PipelineCreated(i) /\ StagesEchoed(i) =>
              /\ call[i].result.kind = "return"
              /\ EveryItem(GetList(call[i].resp.json.obj, "stages"), call[i].result.value.stages)

\* C8, amended: the request's stages are as given, and on success the
\* returned mapping has one entry per displayName of the answer's stages,
\* with the id of the last stage of that displayName (each stage's own id
\* when the displayNames are distinct).
C8_StageMapLastWins ==
    \A i \in Calls :
        /\ Forwarding(i, "create_deployment_pipeline") => StagesAsGiven(i)
        /\ PipelineCreated(i) =>
              /\ call[i].result.kind = "return"
              /\ LastWins(GetList(call[i].resp.json.obj, "stages"), call[i].result.value.stages)

C8_Witness ==
    \E i \in Calls :
        /\ PipelineCreated(i)
        /\ call[i].args.stages = << <<"Dev">>, <<"Test">>, <<"Prod">> >>
        /\ Sent(i).json.stages[3] =
              [displayName |-> <<"Prod">>, description |-> <<"Prod", " stage">>, isPublic |-> FALSE]
        /\ GetList(call[i].resp.json.obj, "stages") =
              << [displayName |-> <<"Dev">>, id |-> <<"d1">>],
                 [displayName |-> <<"Test">>, id |-> <<"t1">>],
                 [displayName |-> <<"Prod">>, id |-> <<"p1">>] >>
        /\ call[i].result.value.stages =
              (<<"Dev">> :> <<"d1">>) @@ (<<"Test">> :> <<"t1">>) @@ (<<"Prod">> :> <<"p1">>)

(* C9 *)

\* C9: get_existing_workspaces, answered 401 by the upstream, returns
\* {error: "401 Unauthorized", body: <the answer's text>} and does not
\* raise.
C9_Unauthorized ==
    \A i \in Calls :
        /\ Forwarded(i) /\ call[i].tool = "get_existing_workspaces"
        /\ call[i].resp.status_code = 401
        => /\ call[i].result.kind = "return"
           /\ call[i].result.value =
                 [error |-> <<"401 Unauthorized">>, body |-> call[i].resp.text]

C9_Witness ==
    \E i \in Calls :
        /\ Forwarded(i) /\ call[i].tool = "get_existing_workspaces"
        /\ call[i].resp.status_code = 401
        /\ call[i].resp.text = <<"{\"errorCode\": \"Conflict\"}">>
        /\ call[i].result.value.body = <<"{\"errorCode\": \"Conflict\"}">>

(* C10 *)

\* The upstream answered invocation i's GET /workspaces with a 2xx status
\* and a JSON object whose `value`, if any, lists workspace objects, each
\* with its displayName and id.
WorkspacesListed(i) ==
    /\ Forwarded(i) /\ call[i].tool = "get_existing_workspaces"
    /\ Is2xx(call[i].resp.status_code)
    /\ call[i].resp.json.type = "object"
    /\ WellFormed(GetList(call[i].resp.json.obj, "value"))

\* C10, as stated: on success the result is the mapping in which every
\* element of `value` has its id under its displayName, and which has no
\* other key.
C10_EveryWorkspace ==
    \A i \in Calls :
        WorkspacesListed(i) =>
            /\ call[i].result.kind = "return"
            /\ EveryItem(GetList(call[i].resp.json.obj, "value"), call[i].result.value)

\* C10, amended: on success the result is the mapping whose keys are the
\* displayNames of `value`, each with the id of the last element of that
\* displayName (every element's own id when the displayNames are distinct;
\* the empty mapping when `value` is absent or empty).
C10_LastWorkspaceWins ==
    \A i \in Calls :
        WorkspacesListed(i) =>
            /\ call[i].result.kind = "return"
            /\ LastWins(GetList(call[i].resp.json.obj, "value"), call[i].result.value)

C10_Witness ==
    \E i \in Calls :
        /\ WorkspacesListed(i)
        /\ GetList(call[i].resp.json.obj, "value") =
              << [displayName |-> <<"A">>, id |-> <<"1">>], [displayName |-> <<"B">>, id |-> <<"2">>] >>
        /\ call[i].result.value = (<<"A">> :> <<"1">>) @@ (<<"B">> :> <<"2">>)

====
